---- MODULE Spec2Model ----
(***************************************************************************)
(* A model of diyepw's create_amy_epw_file.py: the segment splitter, the   *)
(* mapping of a NOAA table onto the hourly grid of a year, the repair of   *)
(* missing values, the pressure conversion and create_amy_epw_file itself. *)
(*                                                                         *)
(* Each function of the source has one variable, the record of its         *)
(* activation (arguments, locals, position); the file system and the       *)
(* collaborators' call counters belong to create_amy_epw_file's variable.  *)
(* A specification runs one function; the other variables stay Idle.       *)
(***************************************************************************)
EXTENDS Integers, Sequences, FiniteSets, TLC

VARIABLES splitCall, mapCall, repairCall, pressureCall, build

vars == <<splitCall, mapCall, repairCall, pressureCall, build>>

\* The value of a variable whose function is not running.
Idle == [pc |-> "idle"]

(***************************************************************************)
(* Helpers on sequences and sets of integers.                              *)
(***************************************************************************)
MinOf(S) == CHOOSE x \in S : \A y \in S : x <= y

MaxOf(S) == CHOOSE x \in S : \A y \in S : y <= x

SeqRange(s) == {s[i] : i \in 1..Len(s)}

\* list.sort() of a list without duplicates: the elements of S, ascending.
RECURSIVE SortSet(_)
SortSet(S) ==
    IF S = {} THEN <<>>
    ELSE LET m == MinOf(S) IN <<m>> \o SortSet(S \ {m})

RECURSIVE Flatten(_)
Flatten(ss) ==
    IF ss = <<>> THEN <<>> ELSE Head(ss) \o Flatten(Tail(ss))

IsSortedNoDup(s) == \A i \in 1..(Len(s) - 1) : s[i] < s[i + 1]

(***************************************************************************)
(* _split_list_into_contiguous_segments(l, step)                           *)
(***************************************************************************)
\* Bounds of the splitter's inputs.
MaxPos == 11
MaxLen == 3
MaxStep == 2

Positions == 0..MaxPos
Steps == (-1)..MaxStep

\* The docstring's example.
ExampleList == <<1, 2, 5, 6, 7, 9, 11>>
ExampleSegments == <<<<1, 2>>, <<5, 6, 7>>, <<9>>, <<11>>>>

\* Lists handed to the splitter: every sorted list without duplicates over
\* Positions, and every list of up to MaxLen positions in any order.
SplitInputs ==
    {SortSet(S) : S \in SUBSET Positions}
        \cup UNION {[1..n -> Positions] : n \in 0..MaxLen}

\* l = list(set(l)); l.sort()
SortedDedup(l) == SortSet(SeqRange(l))

\* A comparison that lets a gap shorter than step pass as contiguous.
StartsNewSegmentOnlyAbove(prev_val, val, step) ==
    prev_val # <<>> /\ val - step > prev_val[1]

\* A comparison that closes the segment at every value.
StartsNewSegmentAtEveryValue(prev_val, val, step) ==
    prev_val # <<>>

\* The comparison of the loop: "prev_val is not None and val - step != prev_val".
StartsNewSegment(prev_val, val, step) ==
    prev_val # <<>> /\ val - step # prev_val[1]

\* One iteration of "for val in l"; prev_val is <<>> for None, <<v>> otherwise.
SplitIteration(c) ==
    LET val == c.l[c.i]
    IN  IF StartsNewSegment(c.prev_val, val, c.step)
        THEN [c EXCEPT !.segments = Append(c.segments, c.cur_segment),
                       !.cur_segment = <<val>>,
                       !.prev_val = <<val>>,
                       !.i = c.i + 1]
        ELSE [c EXCEPT !.cur_segment = Append(c.cur_segment, val),
                       !.prev_val = <<val>>,
                       !.i = c.i + 1]

\* The code after the loop: the last segment is appended when it is not empty.
SplitEpilogue(c) ==
    IF Len(c.cur_segment) > 0
    THEN [c EXCEPT !.segments = Append(c.segments, c.cur_segment), !.pc = "done"]
    ELSE [c EXCEPT !.pc = "done"]

\* The whole function, as its callers use it.
RECURSIVE SplitLoop(_)
SplitLoop(c) ==
    IF c.i > Len(c.l) THEN SplitEpilogue(c).segments
    ELSE SplitLoop(SplitIteration(c))

SplitFrame(l, step) ==
    [pc |-> "loop", input |-> l, l |-> SortedDedup(l), step |-> step,
     segments |-> <<>>, cur_segment |-> <<>>, prev_val |-> <<>>, i |-> 1]

_split_list_into_contiguous_segments(l, step) == SplitLoop(SplitFrame(l, step))

SplitInit ==
    /\ splitCall \in {[pc |-> "called", input |-> l, step |-> s] :
                        l \in SplitInputs, s \in Steps}
    /\ mapCall = Idle
    /\ repairCall = Idle
    /\ pressureCall = Idle
    /\ build = Idle

SplitNormalise ==
    /\ splitCall.pc = "called"
    /\ splitCall' = SplitFrame(splitCall.input, splitCall.step)
    /\ UNCHANGED <<mapCall, repairCall, pressureCall, build>>

SplitStep ==
    /\ splitCall.pc = "loop"
    /\ splitCall.i <= Len(splitCall.l)
    /\ splitCall' = SplitIteration(splitCall)
    /\ UNCHANGED <<mapCall, repairCall, pressureCall, build>>

SplitReturn ==
    /\ splitCall.pc = "loop"
    /\ splitCall.i > Len(splitCall.l)
    /\ splitCall' = SplitEpilogue(splitCall)
    /\ UNCHANGED <<mapCall, repairCall, pressureCall, build>>

SplitNext == SplitNormalise \/ SplitStep \/ SplitReturn

SpecSplit == SplitInit /\ [][SplitNext]_vars

\* C1: for a sorted list without duplicates and any step, the returned
\* segments concatenated in order are the list itself, no segment is empty,
\* and inside a segment every element is its predecessor plus step; the
\* docstring's example splits into [[1,2],[5,6,7],[9],[11]] and the empty
\* list gives no segment.
SplitPartitionsInput ==
    (splitCall.pc = "done" /\ IsSortedNoDup(splitCall.input)) =>
        /\ Flatten(splitCall.segments) = splitCall.input
        /\ \A k \in 1..Len(splitCall.segments) :
              /\ splitCall.segments[k] # <<>>
              /\ \A j \in 2..Len(splitCall.segments[k]) :
                    splitCall.segments[k][j]
                        = splitCall.segments[k][j - 1] + splitCall.step
        /\ (splitCall.input = ExampleList /\ splitCall.step = 1)
              => splitCall.segments = ExampleSegments
        /\ splitCall.input = <<>> => splitCall.segments = <<>>

SplitExampleDone ==
    /\ splitCall.pc = "done"
    /\ splitCall.input = ExampleList
    /\ splitCall.step = 1
    /\ splitCall.segments = ExampleSegments

\* The differences between the first element of a segment and the last
\* element of the segment before it.
SegmentGaps(segments) ==
    {segments[k][1] - segments[k - 1][Len(segments[k - 1])] :
        k \in 2..Len(segments)}

\* C14 as stated: for any step and any sorted list without duplicates, the
\* first element of a segment exceeds the last element of the segment
\* before it by more than step.
SegmentsApartByMoreThanStep ==
    (splitCall.pc = "done" /\ IsSortedNoDup(splitCall.input)) =>
        \A g \in SegmentGaps(splitCall.segments) : g > splitCall.step

\* C14, amended: for any step and any sorted list without duplicates, the
\* first element of a segment lies above the last element of the segment
\* before it by a difference that is never step, and that is more than
\* step when step is at most 1.
SegmentsNeverTouch ==
    (splitCall.pc = "done" /\ IsSortedNoDup(splitCall.input)) =>
        \A g \in SegmentGaps(splitCall.segments) :
            /\ g > 0
            /\ g # splitCall.step
            /\ splitCall.step <= 1 => g > splitCall.step

\* Two neighbouring positions end up in different segments under step 2.
NeighboursSplitAtStepTwo ==
    /\ splitCall.pc = "done"
    /\ splitCall.input = <<1, 2, 4>>
    /\ splitCall.step = 2
    /\ splitCall.segments = << <<1>>, <<2, 4>> >>

(***************************************************************************)
(* Observation values: a rational n/d in lowest terms with d > 0, or NaN   *)
(* (d = 0), the one "absent" marker of the table.                          *)
(***************************************************************************)
NaN == [n |-> 0, d |-> 0]

IsNaN(v) == v.d = 0

Abs(x) == IF x < 0 THEN -x ELSE x

RECURSIVE Gcd(_, _)
Gcd(a, b) == IF b = 0 THEN a ELSE Gcd(b, a % b)

Rat(n, d) ==
    LET g == Gcd(Abs(n), Abs(d))
        s == IF d < 0 THEN -1 ELSE 1
    IN  [n |-> (s * n) \div g, d |-> (s * d) \div g]

Whole(n) == [n |-> n, d |-> 1]

RatAdd(a, b) == Rat(a.n * b.d + b.n * a.d, a.d * b.d)

RatSub(a, b) == Rat(a.n * b.d - b.n * a.d, a.d * b.d)

RatScale(a, k, m) == Rat(a.n * k, a.d * m)

RatLeq(a, b) == a.n * b.d <= b.n * a.d

\* v lies between a and b, ends included, whichever of a and b is larger.
RatBetween(v, a, b) ==
    \/ RatLeq(a, v) /\ RatLeq(v, b)
    \/ RatLeq(b, v) /\ RatLeq(v, a)

RECURSIVE RatSum(_)
RatSum(vs) == IF vs = <<>> THEN Whole(0) ELSE RatAdd(Head(vs), RatSum(Tail(vs)))

RECURSIVE DropNaN(_)
DropNaN(vs) ==
    IF vs = <<>> THEN <<>>
    ELSE IF IsNaN(Head(vs)) THEN DropNaN(Tail(vs))
    ELSE <<Head(vs)>> \o DropNaN(Tail(vs))

\* pandas Series.mean(): the mean of the values that are not NaN, NaN when
\* there is none.
SeriesMean(vs) ==
    LET kept == DropNaN(vs)
    IN  IF kept = <<>> THEN NaN ELSE RatScale(RatSum(kept), 1, Len(kept))

(***************************************************************************)
(* The calendar behind pandas' timestamps.  A timestamp is a number of     *)
(* hours since 0001-01-01T00:00.  A calendar gives the hours of a day, the *)
(* days of a week and the days of each month of a common year; the month   *)
(* leapMonth has one more day in a leap year.                              *)
(***************************************************************************)
GregorianCalendar ==
    [hoursPerDay |-> 24, daysPerWeek |-> 7, leapMonth |-> 2,
     monthDays |-> <<31, 28, 31, 30, 31, 30, 31, 31, 30, 31, 30, 31>>]

IsLeapYear(y) == (y % 4 = 0 /\ y % 100 # 0) \/ y % 400 = 0

RECURSIVE SumSeq(_)
SumSeq(s) == IF s = <<>> THEN 0 ELSE Head(s) + SumSeq(Tail(s))

DaysInMonth(cal, y, m) ==
    cal.monthDays[m] + (IF m = cal.leapMonth /\ IsLeapYear(y) THEN 1 ELSE 0)

DaysInYear(cal, y) == SumSeq(cal.monthDays) + (IF IsLeapYear(y) THEN 1 ELSE 0)

\* Leap years among the years 1..y-1.
LeapsBefore(y) == ((y - 1) \div 4) - ((y - 1) \div 100) + ((y - 1) \div 400)

DaysBeforeYear(cal, y) == (y - 1) * SumSeq(cal.monthDays) + LeapsBefore(y)

DaysBeforeMonth(cal, y, m) ==
    SumSeq([k \in 1..(m - 1) |-> DaysInMonth(cal, y, k)])

\* pd.to_datetime of year, month, day and hour fields.
Stamp(cal, y, m, d, h) ==
    (DaysBeforeYear(cal, y) + DaysBeforeMonth(cal, y, m) + (d - 1))
        * cal.hoursPerDay + h

LastMonth(cal) == Len(cal.monthDays)

\* pd.date_range(start, end, freq='H'): every hour from start to end.
DateRange(start, end) == [k \in 1..(end - start + 1) |-> start + k - 1]

(***************************************************************************)
(* Tables (pandas DataFrames): index is the sequence of the rows'          *)
(* timestamps, columns the column names in order, and cols maps a column   *)
(* name to the sequence of its values.                                     *)
(***************************************************************************)
NRows(df) == Len(df.index)

ColumnsOf(df) == SeqRange(df.columns)

\* The row labelled t, in a table whose index holds t once.
RowOf(df, t) == CHOOSE r \in 1..NRows(df) : df.index[r] = t

InIndex(df, t) == \E r \in 1..NRows(df) : df.index[r] = t

\* df[col][t]
Cell(df, col, t) == df.cols[col][RowOf(df, t)]

\* df[col][t] = v
SetCell(df, col, t, v) == [df EXCEPT !.cols[col][RowOf(df, t)] = v]

\* The rows of df whose index is t, in the order of df.
MatchingRows(df, t) == SortSet({r \in 1..NRows(df) : df.index[r] = t})

\* A left merge gives, for the i-th key of the left table, one row per row
\* of the right table with that key, in the right table's order, and one row
\* of absent values when there is none.  r = 0 stands for that absent row.
MergeBlock(grid, df, i) ==
    LET m == MatchingRows(df, grid[i])
    IN  IF m = <<>> THEN <<[g |-> i, r |-> 0]>>
        ELSE [k \in 1..Len(m) |-> [g |-> i, r |-> m[k]]]

\* The blocks of the keys lo..hi, in the order of the left table.
RECURSIVE MergeBlocks(_, _, _, _)
MergeBlocks(grid, df, lo, hi) ==
    IF lo > hi THEN <<>>
    ELSE IF lo = hi THEN MergeBlock(grid, df, lo)
    ELSE LET mid == (lo + hi) \div 2
         IN  MergeBlocks(grid, df, lo, mid) \o MergeBlocks(grid, df, mid + 1, hi)

\* pd.merge(all_timestamps, df, how='left', left_on='timestamp',
\* right_index=True) followed by set_index('timestamp').
MergeLeftOnIndex(grid, df) ==
    LET src == MergeBlocks(grid, df, 1, Len(grid))
    IN  [index |-> [k \in 1..Len(src) |-> grid[src[k].g]],
         columns |-> df.columns,
         cols |-> [c \in ColumnsOf(df) |->
                     [k \in 1..Len(src) |->
                        IF src[k].r = 0 THEN NaN ELSE df.cols[c][src[k].r]]]]

\* The first and the last timestamp of the grid of a year:
\* year-01-01 00:00:00 and year-12-31 23:00:00.
YearFirstStamp(cal, year) == Stamp(cal, year, 1, 1, 0)

YearLastStamp(cal, year) ==
    Stamp(cal, year, LastMonth(cal), cal.monthDays[LastMonth(cal)],
          cal.hoursPerDay - 1)

_map_noaa_df_to_year(cal, df, year) ==
    LET all_timestamps ==
            DateRange(YearFirstStamp(cal, year), YearLastStamp(cal, year))
    IN  MergeLeftOnIndex(all_timestamps, df)

(***************************************************************************)
(* _map_noaa_df_to_year run on its own, on small shifted tables whose rows *)
(* lie around the two ends of the target year.                             *)
(***************************************************************************)
MaxMapRows == 2

MapYears == {2019, 2020}

EdgeStamps(cal, year) ==
    {YearFirstStamp(cal, year) - 1, YearFirstStamp(cal, year),
     YearFirstStamp(cal, year) + 1, YearLastStamp(cal, year),
     YearLastStamp(cal, year) + 1}

\* A one-column table with the given index; row r holds the value r.
ObservedAt(index) ==
    [index |-> index,
     columns |-> <<"Air_Temperature">>,
     cols |-> [c \in {"Air_Temperature"} |-> [r \in 1..Len(index) |-> Whole(r)]]]

MapInit ==
    /\ mapCall \in
          {[pc |-> "called", year |-> y, df |-> ObservedAt(ix)] :
              y \in MapYears,
              ix \in UNION {[1..n -> EdgeStamps(GregorianCalendar, 2019)
                                       \cup EdgeStamps(GregorianCalendar, 2020)] :
                               n \in 0..MaxMapRows}}
    /\ splitCall = Idle
    /\ repairCall = Idle
    /\ pressureCall = Idle
    /\ build = Idle

MapReturn ==
    /\ mapCall.pc = "called"
    /\ mapCall' = [mapCall EXCEPT
                      !.pc = "done",
                      !.df = _map_noaa_df_to_year(GregorianCalendar,
                                                  mapCall.df, mapCall.year)]
    /\ UNCHANGED <<splitCall, repairCall, pressureCall, build>>

MapNext == MapReturn

SpecMap == MapInit /\ [][MapNext]_vars

\* C2: for any target year and any shifted table, duplicated or
\* out-of-year timestamps included, the mapped table has exactly 8760 rows
\* (8784 in a leap year), its timestamps increase by one hour from
\* year-01-01T00:00 to year-12-31T23:00, and none is repeated.
MappedTableIsTheYearGrid ==
    mapCall.pc = "done" =>
        LET ix == mapCall.df.index
        IN  /\ Len(ix) = (IF IsLeapYear(mapCall.year) THEN 8784 ELSE 8760)
            /\ \A k \in 1..(Len(ix) - 1) : ix[k + 1] = ix[k] + 1
            /\ ix[1] = Stamp(GregorianCalendar, mapCall.year, 1, 1, 0)
            /\ ix[Len(ix)] = Stamp(GregorianCalendar, mapCall.year, 12, 31, 23)

(***************************************************************************)
(* _handle_missing_values(df, step, max_to_interpolate, max_to_impute,     *)
(* imputation_range, imputation_step, missing_values)                      *)
(*                                                                         *)
(* The activation record c holds the arguments, the table df that is       *)
(* changed in place, the position in the loops (ci: the column, todo and   *)
(* ti: the positions that the column's imputation loops visit, in order),  *)
(* and two records of the run kept for the properties: orig, the table as  *)
(* it was once the missing values were set to NaN, and imputed, one entry  *)
(* per assignment of the imputation loop with the samples it read.         *)
(***************************************************************************)
\* df.loc[df[col_name].isin(missing_values), col_name] = NaN, every column.
NormaliseMissing(df, missing_values) ==
    [df EXCEPT !.cols =
        [col \in DOMAIN df.cols |->
            [r \in 1..NRows(df) |->
                IF df.cols[col][r] \in missing_values THEN NaN
                ELSE df.cols[col][r]]]]

\* df.index[df[col_name].isna()].tolist()
RECURSIVE IsnaIndexFrom(_, _, _)
IsnaIndexFrom(df, col, r) ==
    IF r > NRows(df) THEN <<>>
    ELSE (IF IsNaN(df.cols[col][r]) THEN <<df.index[r]>> ELSE <<>>)
            \o IsnaIndexFrom(df, col, r + 1)

get_indices_to_replace(df, col, step) ==
    _split_list_into_contiguous_segments(IsnaIndexFrom(df, col, 1), step)

\* The length of the first sequence instead of the longest:
\* len(indices_to_replace[0]).
FirstSequenceLength(segs) == Len(segs[1])

\* len(max(indices_to_replace, key=len))
MaxSequenceLength(segs) == MaxOf({Len(segs[k]) : k \in 1..Len(segs)})

\* indices[1:-1]
Interior(indices) == SubSeq(indices, 2, Len(indices) - 1)

\* The positions "for indices in indices_to_replace: ... for index_to_impute
\* in indices_to_impute" visits, in order: blocks within max_to_interpolate
\* are skipped.
RECURSIVE PositionsToImpute(_, _)
PositionsToImpute(segs, max_to_interpolate) ==
    IF segs = <<>> THEN <<>>
    ELSE (IF Len(Head(segs)) <= max_to_interpolate THEN <<>>
          ELSE Interior(Head(segs)))
            \o PositionsToImpute(Tail(segs), max_to_interpolate)

\* The while loop: the samples read from replacement_value_index on, as
\* records of the index read and the value found there.
RECURSIVE ReplacementSamples(_, _, _, _, _)
ReplacementSamples(df, col, replacement_value_index, last, imputation_step) ==
    IF replacement_value_index > last THEN <<>>
    ELSE (IF InIndex(df, replacement_value_index)
          THEN <<[idx |-> replacement_value_index,
                  val |-> Cell(df, col, replacement_value_index)]>>
          ELSE <<>>)
            \o ReplacementSamples(df, col,
                                  replacement_value_index + imputation_step,
                                  last, imputation_step)

SamplesFor(df, col, index_to_impute, imputation_range, imputation_step) ==
    ReplacementSamples(df, col, index_to_impute - imputation_range,
                       index_to_impute + imputation_range, imputation_step)

SampleValues(samples) == [k \in 1..Len(samples) |-> samples[k].val]

\* DataFrame.interpolate() of one column: linear between the nearest valid
\* neighbours by position, forward only: the NaN before the first valid
\* value stay, the NaN after the last valid value take that value.
InterpolateColumn(v) ==
    LET valid == {i \in 1..Len(v) : ~IsNaN(v[i])}
    IN  IF valid = {} THEN v
        ELSE [i \in 1..Len(v) |->
                IF ~IsNaN(v[i]) THEN v[i]
                ELSE IF i < MinOf(valid) THEN NaN
                ELSE IF i > MaxOf(valid) THEN v[MaxOf(valid)]
                ELSE LET a == MaxOf({j \in valid : j < i})
                         b == MinOf({j \in valid : j > i})
                     IN  RatAdd(v[a],
                                RatScale(RatSub(v[b], v[a]), i - a, b - a))]

Interpolate(df) ==
    [df EXCEPT !.cols = [col \in DOMAIN df.cols |-> InterpolateColumn(df.cols[col])]]

RepairFrame(df, step, max_to_interpolate, max_to_impute, imputation_range, imputation_step, missing_values) ==
    [pc |-> "called", df |-> df, step |-> step,
     max_to_interpolate |-> max_to_interpolate,
     max_to_impute |-> max_to_impute,
     imputation_range |-> imputation_range,
     imputation_step |-> imputation_step,
     missing_values |-> missing_values,
     ci |-> 1, indices_to_replace |-> <<>>, todo |-> <<>>, ti |-> 1,
     error |-> <<>>, input |-> df, orig |-> df, imputed |-> <<>>]

\* "The longest set of missing records for {} is {}, but the max allowed is
\* {}".format(col_name, max_sequence_length, max_to_impute), as the pieces
\* of the text.
GapMessage(col_name, max_sequence_length, max_to_impute) ==
    <<"The longest set of missing records for ", col_name, " is ",
      ToString(max_sequence_length), ", but the max allowed is ",
      ToString(max_to_impute)>>

\* Lines 259-261.
RepairNormaliseStep(c) ==
    LET df == NormaliseMissing(c.df, c.missing_values)
    IN  [c EXCEPT !.pc = "column", !.df = df, !.orig = df]

\* Lines 263-294: the head of "for col_name in df".
RepairColumnStep(c) ==
    LET col_name == c.df.columns[c.ci]
        indices_to_replace == get_indices_to_replace(c.df, col_name, c.step)
        todo == PositionsToImpute(indices_to_replace, c.max_to_interpolate)
    IN  IF Len(indices_to_replace) = 0
        THEN [c EXCEPT !.ci = c.ci + 1, !.indices_to_replace = <<>>]
        ELSE IF MaxSequenceLength(indices_to_replace) > c.max_to_impute
        THEN [c EXCEPT !.pc = "raised",
                       !.indices_to_replace = indices_to_replace,
                       !.error = GapMessage(
                                    col_name,
                                    MaxSequenceLength(indices_to_replace),
                                    c.max_to_impute)]
        ELSE IF todo = <<>>
        THEN [c EXCEPT !.ci = c.ci + 1,
                       !.indices_to_replace = indices_to_replace]
        ELSE [c EXCEPT !.pc = "impute", !.todo = todo, !.ti = 1,
                       !.indices_to_replace = indices_to_replace]

\* Lines 299-308: one pass of "for index_to_impute in indices_to_impute".
RepairImputeStep(c) ==
    LET col_name == c.df.columns[c.ci]
        index_to_impute == c.todo[c.ti]
        samples == SamplesFor(c.df, col_name, index_to_impute,
                              c.imputation_range, c.imputation_step)
        df == SetCell(c.df, col_name, index_to_impute,
                      SeriesMean(SampleValues(samples)))
        last == c.ti = Len(c.todo)
    IN  [c EXCEPT !.df = df,
                  !.imputed = Append(c.imputed,
                                     [col_name |-> col_name,
                                      at |-> index_to_impute,
                                      samples |-> samples]),
                  !.ti = IF last THEN 1 ELSE c.ti + 1,
                  !.todo = IF last THEN <<>> ELSE c.todo,
                  !.ci = IF last THEN c.ci + 1 ELSE c.ci,
                  !.pc = IF last THEN "column" ELSE "impute"]

\* Line 314.
RepairInterpolateStep(c) ==
    [c EXCEPT !.pc = "done", !.df = Interpolate(c.df), !.indices_to_replace = <<>>]

RepairStep(c) ==
    IF c.pc = "called" THEN RepairNormaliseStep(c)
    ELSE IF c.pc = "impute" THEN RepairImputeStep(c)
    ELSE IF c.ci <= Len(c.df.columns) THEN RepairColumnStep(c)
    ELSE RepairInterpolateStep(c)

\* The whole call: the activation record when the function returns
\* (pc = "done") or raises (pc = "raised").
RECURSIVE RunRepair(_)
RunRepair(c) ==
    IF c.pc \in {"done", "raised"} THEN c ELSE RunRepair(RepairStep(c))

_handle_missing_values(df, step, max_to_interpolate, max_to_impute, imputation_range, imputation_step, missing_values) ==
    RunRepair(RepairFrame(df, step, max_to_interpolate, max_to_impute,
                          imputation_range, imputation_step, missing_values))

(***************************************************************************)
(* _handle_missing_values run on its own, on small hourly tables of two    *)
(* columns: the first holds any mix of absent and observed values, the     *)
(* second is observed but for one run of the -9999 marker.                 *)
(***************************************************************************)
RepairRows == 5
MaxInterpolate == 2
MaxImpute == 4
MaxRange == 2
MaxImputationStep == 2

\* missing_values=[nan, -9999.], as create_amy_epw_file passes it.
MissingMarkers == {NaN, Whole(-9999)}

FirstColumnChoices == [1..RepairRows -> {NaN, Whole(0), Whole(3)}]

SecondColumnChoices ==
    {[r \in 1..RepairRows |->
        IF start <= r /\ r < start + len THEN Whole(-9999) ELSE Whole(r)] :
            start \in 1..RepairRows, len \in 0..RepairRows}

RepairTables ==
    {[index |-> [r \in 1..RepairRows |-> r],
      columns |-> <<"Air_Temperature", "Dew_Point_Temperature">>,
      cols |-> [col \in {"Air_Temperature", "Dew_Point_Temperature"} |->
                  IF col = "Air_Temperature" THEN a ELSE b]] :
        a \in FirstColumnChoices, b \in SecondColumnChoices}

RepairInit ==
    /\ repairCall \in
          {RepairFrame(df, 1, mi, mx, rg, st, MissingMarkers) :
              df \in RepairTables, mi \in 0..MaxInterpolate,
              mx \in 0..MaxImpute, rg \in 1..MaxRange,
              st \in 1..MaxImputationStep}
    /\ splitCall = Idle
    /\ mapCall = Idle
    /\ pressureCall = Idle
    /\ build = Idle

RepairNormalise ==
    /\ repairCall.pc = "called"
    /\ repairCall' = RepairNormaliseStep(repairCall)
    /\ UNCHANGED <<splitCall, mapCall, pressureCall, build>>

RepairColumn ==
    /\ repairCall.pc = "column"
    /\ repairCall.ci <= Len(repairCall.df.columns)
    /\ repairCall' = RepairColumnStep(repairCall)
    /\ UNCHANGED <<splitCall, mapCall, pressureCall, build>>

RepairImpute ==
    /\ repairCall.pc = "impute"
    /\ repairCall' = RepairImputeStep(repairCall)
    /\ UNCHANGED <<splitCall, mapCall, pressureCall, build>>

RepairInterpolate ==
    /\ repairCall.pc = "column"
    /\ repairCall.ci > Len(repairCall.df.columns)
    /\ repairCall' = RepairInterpolateStep(repairCall)
    /\ UNCHANGED <<splitCall, mapCall, pressureCall, build>>

RepairNext ==
    RepairNormalise \/ RepairColumn \/ RepairImpute \/ RepairInterpolate

SpecRepair == RepairInit /\ [][RepairNext]_vars

\* The blocks of absent values of a column of the table the call started
\* from, once its missing values were set to NaN.
OrigSegments(c, col) == get_indices_to_replace(c.orig, col, c.step)

\* The value in the row before (after) a block, <<>> when the block starts
\* (ends) the table.
NeighbourBefore(df, col, indices) ==
    IF InIndex(df, indices[1] - 1)
    THEN <<Cell(df, col, indices[1] - 1)>> ELSE <<>>

NeighbourAfter(df, col, indices) ==
    IF InIndex(df, indices[Len(indices)] + 1)
    THEN <<Cell(df, col, indices[Len(indices)] + 1)>> ELSE <<>>

\* v lies between the neighbours that exist.
BetweenNeighbours(v, before, after) ==
    IF before # <<>> /\ after # <<>> THEN RatBetween(v, before[1], after[1])
    ELSE IF before # <<>> THEN v = before[1]
    ELSE IF after # <<>> THEN v = after[1]
    ELSE TRUE

\* C3: when the call returns, a column whose only missing run has length
\* max_to_interpolate, wherever the run lies, holds no absent value, and
\* every value filled in lies between the run's two neighbours.
ShortRunIsRepaired ==
    repairCall.pc = "done" =>
        \A col \in ColumnsOf(repairCall.df) :
            LET segs == OrigSegments(repairCall, col)
            IN  (Len(segs) = 1 /\ Len(segs[1]) = repairCall.max_to_interpolate)
                =>  /\ \A r \in 1..NRows(repairCall.df) :
                          ~IsNaN(repairCall.df.cols[col][r])
                    /\ \A k \in 1..Len(segs[1]) :
                          BetweenNeighbours(
                              Cell(repairCall.df, col, segs[1][k]),
                              NeighbourBefore(repairCall.orig, col, segs[1]),
                              NeighbourAfter(repairCall.orig, col, segs[1]))

\* The indices at offsets -range, -range+step, ..., +range from p that the
\* table has.
WindowIndices(c, p) ==
    {t \in SeqRange(c.df.index) :
        \E k \in 0..(2 * c.imputation_range) :
            t = p - c.imputation_range + k * c.imputation_step
            /\ t <= p + c.imputation_range}

\* The assignments of the imputation loop to the cell (col, p).
ImputationsOf(c, col, p) ==
    {k \in 1..Len(c.imputed) : c.imputed[k].col_name = col /\ c.imputed[k].at = p}

\* C4: when the call returns, for every missing run of length L with
\* max_to_interpolate < L <= max_to_impute the imputation loop has written
\* every position of the run but its first and its last, and each of these
\* holds the mean of the non-absent values found at the offsets
\* -imputation_range, -imputation_range+imputation_step, ...,
\* +imputation_range from it, offsets outside the index skipped.
InteriorHoldsWindowMean ==
    repairCall.pc = "done" =>
        \A col \in ColumnsOf(repairCall.df) :
            LET segs == OrigSegments(repairCall, col)
            IN  \A s \in 1..Len(segs) :
                  (/\ Len(segs[s]) > repairCall.max_to_interpolate
                   /\ Len(segs[s]) <= repairCall.max_to_impute)
                  =>  /\ ImputationsOf(repairCall, col, segs[s][1]) = {}
                      /\ ImputationsOf(repairCall, col, segs[s][Len(segs[s])]) = {}
                      /\ \A j \in 2..(Len(segs[s]) - 1) :
                            LET p == segs[s][j]
                                ks == ImputationsOf(repairCall, col, p)
                            IN  /\ Cardinality(ks) = 1
                                /\ \A k \in ks :
                                     LET e == repairCall.imputed[k]
                                     IN  /\ {e.samples[i].idx :
                                               i \in 1..Len(e.samples)}
                                             = WindowIndices(repairCall, p)
                                         /\ Cell(repairCall.df, col, p)
                                             = SeriesMean(SampleValues(e.samples))

\* C10: every sample an imputation reads is the value the column held
\* before any imputation of the call.
ImputationReadsOriginalValues ==
    \A k \in 1..Len(repairCall.imputed) :
        LET e == repairCall.imputed[k]
        IN  \A i \in 1..Len(e.samples) :
                e.samples[i].val = Cell(repairCall.orig, e.col_name, e.samples[i].idx)

\* The columns of the table as passed whose longest block of missing values
\* (NaN or -9999) exceeds max_to_impute.
ColumnsBeyondImpute(c) ==
    LET marked == NormaliseMissing(c.input, c.missing_values)
    IN  {col \in ColumnsOf(c.input) :
            LET segs == get_indices_to_replace(marked, col, c.step)
            IN  Len(segs) > 0 /\ MaxSequenceLength(segs) > c.max_to_impute}

\* C11: when the table passed to _handle_missing_values has, in any column,
\* a block of missing values longer than max_to_impute, the call never
\* returns, and when it raises every cell of the table holds the value it
\* held before the call.
LongBlockRaisesAndLeavesTable ==
    ColumnsBeyondImpute(repairCall) # {} =>
        /\ repairCall.pc # "done"
        /\ repairCall.pc = "raised" => repairCall.df = repairCall.input

\* The column loop is over and df.interpolate() is about to run.
InterpolationStarts(c) == c.pc = "column" /\ c.ci > Len(c.df.columns)

\* C12: when the interpolation pass starts, no column of the table holds a
\* run of consecutive absent values longer than max_to_interpolate.
OnlyShortRunsReachInterpolation ==
    InterpolationStarts(repairCall) =>
        \A col \in ColumnsOf(repairCall.df) :
            LET segs == get_indices_to_replace(repairCall.df, col, repairCall.step)
            IN  \A s \in 1..Len(segs) :
                    Len(segs[s]) <= repairCall.max_to_interpolate

(***************************************************************************)
(* Natural numbers of any size, for the pressure conversion: a sequence of *)
(* limbs in base 10000, the least significant first, without leading zero  *)
(* limbs (<<>> is 0).                                                      *)
(***************************************************************************)
Limb == 100 * 100

RECURSIVE Big(_)
Big(n) == IF n = 0 THEN <<>> ELSE <<n % Limb>> \o Big(n \div Limb)

RECURSIVE BigTrim(_)
BigTrim(a) ==
    IF a = <<>> THEN <<>>
    ELSE IF a[Len(a)] = 0 THEN BigTrim(SubSeq(a, 1, Len(a) - 1))
    ELSE a

RECURSIVE BigAddCarry(_, _, _)
BigAddCarry(a, b, carry) ==
    IF a = <<>> /\ b = <<>> THEN (IF carry = 0 THEN <<>> ELSE <<carry>>)
    ELSE LET x == IF a = <<>> THEN 0 ELSE Head(a)
             y == IF b = <<>> THEN 0 ELSE Head(b)
             t == x + y + carry
         IN  <<t % Limb>>
                \o BigAddCarry(IF a = <<>> THEN <<>> ELSE Tail(a),
                               IF b = <<>> THEN <<>> ELSE Tail(b),
                               t \div Limb)

BigAdd(a, b) == BigTrim(BigAddCarry(a, b, 0))

\* acc + a * k for one limb k, 0 <= k < Limb.
RECURSIVE BigMulAdd(_, _, _, _)
BigMulAdd(acc, a, k, carry) ==
    IF a = <<>> /\ acc = <<>> THEN (IF carry = 0 THEN <<>> ELSE <<carry>>)
    ELSE LET t == (IF acc = <<>> THEN 0 ELSE Head(acc))
                    + (IF a = <<>> THEN 0 ELSE Head(a) * k) + carry
         IN  <<t % Limb>>
                \o BigMulAdd(IF acc = <<>> THEN <<>> ELSE Tail(acc),
                             IF a = <<>> THEN <<>> ELSE Tail(a),
                             k, t \div Limb)

\* acc + a * (the limbs of b from the i-th on), one limb of b at a time;
\* acc has at least i - 1 limbs.
RECURSIVE BigMulFrom(_, _, _, _)
BigMulFrom(a, b, i, acc) ==
    IF i > Len(b) THEN BigTrim(acc)
    ELSE LET next == SubSeq(acc, 1, i - 1)
                        \o BigMulAdd(SubSeq(acc, i, Len(acc)), a, b[i], 0)
         IN  IF Len(next) > 0 THEN BigMulFrom(a, b, i + 1, next)
             ELSE BigMulFrom(a, b, i + 1, <<>>)

\* The loop runs over the limbs of the shorter number.
BigMul(a, b) ==
    IF a = <<>> \/ b = <<>> THEN <<>>
    ELSE IF Len(a) >= Len(b) THEN BigMulFrom(a, b, 1, <<>>)
    ELSE BigMulFrom(b, a, 1, <<>>)

RECURSIVE BigPow(_, _)
BigPow(a, k) == IF k = 0 THEN <<1>> ELSE BigMul(a, BigPow(a, k - 1))

\* a <= b: the longer number is the larger, equal lengths compare from the
\* most significant limb down.
RECURSIVE BigLeq(_, _)
BigLeq(a, b) ==
    IF Len(a) # Len(b) THEN Len(a) < Len(b)
    ELSE IF a = <<>> THEN TRUE
    ELSE IF a[Len(a)] # b[Len(b)] THEN a[Len(a)] < b[Len(b)]
    ELSE BigLeq(SubSeq(a, 1, Len(a) - 1), SubSeq(b, 1, Len(b) - 1))

BigMin(a, b) == IF BigLeq(a, b) THEN a ELSE b

BigMax(a, b) == IF BigLeq(a, b) THEN b ELSE a

(***************************************************************************)
(* _convert_sea_level_pressure_to_station_pressure(Pa, h_m)                *)
(*                                                                         *)
(* A float is modelled by an enclosure of the real number it stands for:   *)
(* lo/den <= x <= hi/den, with lo, hi and den natural numbers (nan is the  *)
(* enclosure with den = 0).  The products and quotients are exact.  The    *)
(* power x ** 5.2561 is enclosed between x ** 5 and x ** 6, which meet     *)
(* when x = 1.  The rounding of the doubles, below 1e-14 of the result     *)
(* over the whole function, widens the enclosure that is returned.         *)
(* The function is modelled for Pa >= 0 and 0 <= h_m < 44307, where the    *)
(* base of the power is positive.                                          *)
(***************************************************************************)
FloatNaN == [lo |-> <<>>, hi |-> <<>>, den |-> <<>>]

\* float(v) of a value of the table.
FloatOf(v) ==
    IF IsNaN(v) THEN FloatNaN
    ELSE [lo |-> Big(v.n), hi |-> Big(v.n), den |-> Big(v.d)]

\* x * (num / den) for an exact factor.
FloatTimes(x, num, den) ==
    LET lo == BigMul(x.lo, num)
    IN  IF x.den = <<>> THEN FloatNaN
        ELSE [lo |-> lo,
              hi |-> IF x.hi = x.lo THEN lo ELSE BigMul(x.hi, num),
              den |-> BigMul(x.den, den)]

\* x * [lo, hi] / den for an enclosed factor.
FloatTimesEnclosed(x, flo, fhi, den) ==
    LET lo == BigMul(x.lo, flo)
    IN  IF x.den = <<>> THEN FloatNaN
        ELSE [lo |-> lo,
              hi |-> IF x.hi = x.lo /\ fhi = flo THEN lo ELSE BigMul(x.hi, fhi),
              den |-> BigMul(x.den, den)]

\* 0.029529983071445 = MillibarToInHgNum / 10^15
MillibarToInHgNum == BigAdd(BigMul(Big(29529983), Big(1000000)), Big(71445))

MillibarToInHgDen == BigMul(Big(100000000), Big(10000000))

\* The factor applied to Pa itself, without the division by 10.
PressureInHgNoTenth(Pa) == FloatTimes(Pa, MillibarToInHgNum, MillibarToInHgDen)

\* Line 365: Pa_inHg = Pa/10 * 0.029529983071445
PressureInHg(Pa) ==
    FloatTimes(FloatTimes(Pa, Big(1), Big(10)),
               MillibarToInHgNum, MillibarToInHgDen)

\* Line 368: Pstn_inHg = Pa_inHg * ((288 - 0.0065*h_m)/288)**5.2561, with
\* (288 - 0.0065*h_m)/288 = (2880000 - 65*h_m)/2880000, in lowest terms.
StationInHg(Pa_inHg, h_m) ==
    LET g == Gcd(2880000 - 65 * h_m, 2880000)
        num == Big((2880000 - 65 * h_m) \div g)
        den == Big(2880000 \div g)
        p5 == BigMul(BigPow(num, 5), den)
        p6 == BigPow(num, 6)
    IN  FloatTimesEnclosed(Pa_inHg, BigMin(p5, p6), BigMax(p5, p6),
                           BigPow(den, 6))

\* Line 371: Pstn = Pstn_inHg * 3386.389
StationPa(Pstn_inHg) == FloatTimes(Pstn_inHg, Big(3386389), Big(1000))

\* The doubles' rounding: the enclosure widened by 1e-14 of its ends,
\* lo * (10^14 - 1) / 10^14 and hi * (10^14 + 1) / 10^14.
RoundingDen == BigMul(Big(10000000), Big(10000000))

RoundingBelow == BigAdd(BigMul(Big(9999999), Big(10000000)), Big(9999999))

RoundingAbove == BigAdd(RoundingDen, Big(1))

Rounded(x) ==
    IF x.den = <<>> THEN FloatNaN
    ELSE [lo |-> BigMul(x.lo, RoundingBelow),
          hi |-> BigMul(x.hi, RoundingAbove),
          den |-> BigMul(x.den, RoundingDen)]

_convert_sea_level_pressure_to_station_pressure(Pa, h_m) ==
    Rounded(StationPa(StationInHg(PressureInHg(FloatOf(Pa)), h_m)))

(***************************************************************************)
(* The conversion run on its own, line by line.                            *)
(***************************************************************************)
\* Sea level pressures in hPa*10, 10132.5 among them, and elevations in m.
PressureInputs ==
    {Rat(20265, 2), Whole(9500), Whole(9870), Whole(10000), Whole(10132),
     Whole(10133), Whole(10250), Whole(10400), Rat(30397, 3), NaN}

ElevationInputs == {0, 1, 100, 1609}

PressureInit ==
    /\ pressureCall \in {[pc |-> "called", Pa |-> pa, h_m |-> h,
                          Pa_inHg |-> FloatNaN, Pstn_inHg |-> FloatNaN,
                          Pstn |-> FloatNaN] :
                            pa \in PressureInputs, h \in ElevationInputs}
    /\ splitCall = Idle
    /\ mapCall = Idle
    /\ repairCall = Idle
    /\ build = Idle

PressureToInHg ==
    /\ pressureCall.pc = "called"
    /\ pressureCall' = [pressureCall EXCEPT
                           !.pc = "inHg",
                           !.Pa_inHg = PressureInHg(FloatOf(pressureCall.Pa))]
    /\ UNCHANGED <<splitCall, mapCall, repairCall, build>>

PressureAtStation ==
    /\ pressureCall.pc = "inHg"
    /\ pressureCall' = [pressureCall EXCEPT
                           !.pc = "station",
                           !.Pstn_inHg = StationInHg(pressureCall.Pa_inHg,
                                                     pressureCall.h_m)]
    /\ UNCHANGED <<splitCall, mapCall, repairCall, build>>

PressureReturn ==
    /\ pressureCall.pc = "station"
    /\ pressureCall' = [pressureCall EXCEPT
                           !.pc = "done",
                           !.Pstn = Rounded(StationPa(pressureCall.Pstn_inHg))]
    /\ UNCHANGED <<splitCall, mapCall, repairCall, build>>

PressureNext == PressureToInHg \/ PressureAtStation \/ PressureReturn

SpecPressure == PressureInit /\ [][PressureNext]_vars

\* x lies within num/den of target, relatively: target*(den-num)/den <= x
\* <= target*(den+num)/den, for naturals target, num and den.
WithinRelative(x, target, num, den) ==
    /\ x.den # <<>>
    /\ BigLeq(BigMul(BigMul(Big(target), Big(den - num)), x.den),
              BigMul(x.lo, Big(den)))
    /\ BigLeq(BigMul(x.hi, Big(den)),
              BigMul(BigMul(Big(target), Big(den + num)), x.den))

StandardAtSeaLevel ==
    /\ pressureCall.pc = "done"
    /\ pressureCall.Pa = Rat(20265, 2)
    /\ pressureCall.h_m = 0

\* C9 as stated: for Pa = 10132.5 and h_m = 0 the result is 101325 Pa
\* within floating-point tolerance, taken as a relative 1e-9 (the default
\* of math.isclose, a million times the rounding of a double).
SeaLevelPressureIsKept ==
    StandardAtSeaLevel => WithinRelative(pressureCall.Pstn, 101325, 1, 1000000000)

\* C9 as amended: for Pa = 10132.5 and h_m = 0 the result is 101325 Pa
\* within a relative 1e-7 (0.0101 Pa), and exceeds it by more than a
\* relative 9e-8 (0.0091 Pa): the two conversion factors multiply to
\* 100.0000098, not to 100.
SeaLevelPressureIsKeptWithinTenMillionth ==
    StandardAtSeaLevel =>
        /\ WithinRelative(pressureCall.Pstn, 101325, 1, 10000000)
        /\ ~WithinRelative(pressureCall.Pstn, 101325, 9, 100000000)

(***************************************************************************)
(* create_amy_epw_file                                                     *)
(*                                                                         *)
(* The whole build runs on a calendar of short days and short years, so    *)
(* that a year of hourly rows is a handful of rows: the quantities of the  *)
(* code that are calendar quantities follow it (the grid of the year, the  *)
(* step "1h", the imputation step "1d", the imputation range "2w", and the *)
(* 23 rows of the next year, which are a day less one hour).               *)
(***************************************************************************)
HoursPerDay == 2
DaysPerWeek == 1
DaysPerYear == 3

\* A common year is a first month of one day, which a leap year lengthens
\* by a day, and a last month with the other days.
BuildCalendar ==
    [hoursPerDay |-> HoursPerDay, daysPerWeek |-> DaysPerWeek, leapMonth |-> 1,
     monthDays |-> <<1, DaysPerYear - 1>>]

\* Python's None, for amy_epw_dir, tmy_epw_dir, amy_dir and amy_files.
None == <<>>

(***************************************************************************)
(* Text is a sequence of pieces, a path a text, and the file system a      *)
(* function from the paths that exist to what they hold.                   *)
(***************************************************************************)
\* str.replace(old, new), on pieces.
Replace(text, old, new) ==
    [i \in 1..Len(text) |-> IF text[i] = old THEN new ELSE text[i]]

\* os.path.join(dir, name)
PathJoin(dir, name) == dir \o <<"/">> \o name

\* os.path.exists(path)
PathExists(fs, path) == path \in DOMAIN fs

\* _files_dir, the package's files directory.
_files_dir == <<"files">>

(***************************************************************************)
(* The world outside: what the TMY archive holds for a station, what the   *)
(* NOAA archive holds for a year, and the files the caller may name.       *)
(***************************************************************************)
Stations == {725300, 724940}

\* The station metadata Meteorology.from_tmy3_file reads from the TMY file.
StationMetadata(wmo_index) ==
    IF wmo_index = 725300
    THEN [country |-> <<"USA">>, state |-> <<"IL">>,
          city |-> <<"Chicago", " ", "Ohare", " ", "Intl", " ", "Ap">>,
          station_number |-> <<"725300">>,
          timezone_gmt_offset |-> -1, elevation |-> 100]
    ELSE [country |-> <<"USA">>, state |-> <<"CA">>,
          city |-> <<"San", " ", "Francisco", " ", "Intl", " ", "Ap">>,
          station_number |-> <<"724940">>,
          timezone_gmt_offset |-> 0, elevation |-> 0]

\* The shapes an observation file can have: every hour observed; one hour
\* of Air_Temperature marked -9999; Wind_Speed marked -9999 but for one
\* hour; two hours without a row.
FileKinds == {"complete", "short_gap", "long_gap", "rows_absent"}

\* The month, day and hour of the k-th hour of year y.
HourFields(cal, y, k) ==
    LET dayOfYear == (k - 1) \div cal.hoursPerDay
        m == CHOOSE mm \in 1..LastMonth(cal) :
                /\ DaysBeforeMonth(cal, y, mm) <= dayOfYear
                /\ dayOfYear < DaysBeforeMonth(cal, y, mm) + DaysInMonth(cal, y, mm)
    IN  [month |-> m, day |-> dayOfYear - DaysBeforeMonth(cal, y, m) + 1,
         hour |-> (k - 1) % cal.hoursPerDay]

\* One line of an ISD Lite file, as its twelve numbers.
ObservationLine(cal, kind, y, k) ==
    LET f == HourFields(cal, y, k)
    IN  <<y, f.month, f.day, f.hour,
          IF kind = "short_gap" /\ k = 3 THEN -9999 ELSE 10 * k,
          5 * k,
          10132 + k,
          90,
          IF kind = "long_gap" /\ k # 3 THEN -9999 ELSE 20 + k,
          0, 0, 0>>

\* The lines of the file of year y: one per hour, in order.
ObservationFile(cal, kind, y) ==
    LET hours == SortSet({k \in 1..(DaysInYear(cal, y) * cal.hoursPerDay) :
                            ~(kind = "rows_absent" /\ k \in {3, 4})})
    IN  [i \in 1..Len(hours) |-> ObservationLine(cal, kind, y, hours[i])]

\* The two files a caller can name, and a path that does not exist.
FirstYearFile == <<"obs", "/", "first.gz">>
NextYearFile == <<"obs", "/", "next.gz">>
AbsentFile == <<"obs", "/", "absent.gz">>

\* _tempdir_amy_epw = tempfile.mkdtemp(), made when the module is loaded.
_tempdir_amy_epw == <<"tmp", "/", "tmpdir">>

\* The file system before any call.
InitialFiles ==
    (_tempdir_amy_epw :> [type |-> "directory"])
        @@ (FirstYearFile :> [type |-> "observations", year |-> 2019])
        @@ (NextYearFile :> [type |-> "observations", year |-> 2020])

(***************************************************************************)
(* get_noaa_isd_lite_file(wmo_index, year, output_dir)                     *)
(*                                                                         *)
(* network says how the requests of the call end: "ok", "no_catalog" (the  *)
(* catalog of the year cannot be had) or "no_file" (the file cannot).      *)
(* The result is the file system after the call and the path returned, or  *)
(* raised = TRUE.                                                          *)
(***************************************************************************)
NetworkOutcomes == {"ok", "no_catalog", "no_file"}

\* Lines 49-97: the catalog of the year is read when it is there, and
\* downloaded and saved otherwise.
_get_noaa_isd_lite_file_catalog(fs, year, network) ==
    LET file_path == PathJoin(PathJoin(_files_dir, <<"noaa_isd_lite_catalogs">>),
                              <<ToString(year)>>)
    IN  IF PathExists(fs, file_path) THEN [fs |-> fs, raised |-> FALSE]
        ELSE IF network = "no_catalog" THEN [fs |-> fs, raised |-> TRUE]
        ELSE [fs |-> fs @@ (file_path :> [type |-> "catalog", year |-> year]),
              raised |-> FALSE]

get_noaa_isd_lite_file(fs, wmo_index, year, output_dir, network) ==
    LET dir == IF output_dir = None
               THEN PathJoin(_files_dir, <<"noaa_isd_lite_files">>)
               ELSE output_dir
        made == IF PathExists(fs, dir) THEN fs
                ELSE fs @@ (dir :> [type |-> "directory"])
        file_path == PathJoin(dir, <<ToString(wmo_index), "-", ToString(year), ".gz">>)
        catalog == _get_noaa_isd_lite_file_catalog(made, year, network)
    IN  IF PathExists(made, file_path)
        THEN [fs |-> made, path |-> file_path, raised |-> FALSE]
        ELSE IF catalog.raised
        THEN [fs |-> catalog.fs, path |-> None, raised |-> TRUE]
        ELSE IF network = "no_file"
        THEN [fs |-> catalog.fs, path |-> None, raised |-> TRUE]
        ELSE [fs |-> catalog.fs
                        @@ (file_path :> [type |-> "observations", year |-> year]),
              path |-> file_path, raised |-> FALSE]

(***************************************************************************)
(* Reading and aligning the observations, lines 105-116.                   *)
(***************************************************************************)
\* pd.read_csv(path, delim_whitespace=True, header=None): the lines of the
\* file; with nrows, the first nrows of them.
read_csv(cal, kind, fs, path, nrows) ==
    LET lines == ObservationFile(cal, kind, fs[path].year)
    IN  IF nrows = None \/ Len(lines) <= nrows[1] THEN lines
        ELSE SubSeq(lines, 1, nrows[1])

\* Lines 158-169: the twelve columns named, the last three dropped; the
\* index is the position in the concatenated table.
_set_noaa_df_columns(lines) ==
    LET list_of_columns == <<"Year", "Month", "Day", "Hour", "Air_Temperature",
                             "Dew_Point_Temperature", "Sea_Level_Pressure",
                             "Wind_Direction", "Wind_Speed">>
    IN  [index |-> [r \in 1..Len(lines) |-> r - 1],
         columns |-> list_of_columns,
         cols |-> [c \in SeqRange(list_of_columns) |->
                     LET k == CHOOSE j \in 1..Len(list_of_columns) :
                                 list_of_columns[j] = c
                     IN  [r \in 1..Len(lines) |-> Whole(lines[r][k])]]]

\* Lines 179-186: the timestamp of every row made its index, the four date
\* columns dropped.
_create_timestamp_index_for_noaa_df(cal, df) ==
    LET kept == SubSeq(df.columns, 5, Len(df.columns))
    IN  [index |-> [r \in 1..NRows(df) |->
                      Stamp(cal, df.cols["Year"][r].n, df.cols["Month"][r].n,
                            df.cols["Day"][r].n, df.cols["Hour"][r].n)],
         columns |-> kept,
         cols |-> [c \in SeqRange(kept) |-> df.cols[c]]]

\* df.shift(periods=periods, freq='H'): every timestamp moved by periods
\* hours, the values left in their rows.
Shift(df, periods) ==
    [df EXCEPT !.index = [r \in 1..NRows(df) |-> df.index[r] + periods]]

\* Lines 105-116.
AlignedObservations(cal, kind, fs, amy_file_path, amy_next_year_file_path, timezone_gmt_offset, year) ==
    LET amy_df == read_csv(cal, kind, fs, amy_file_path, None)
        amy_next_year_df ==
            read_csv(cal, kind, fs, amy_next_year_file_path,
                     <<cal.hoursPerDay - 1>>)
        named == _set_noaa_df_columns(amy_df \o amy_next_year_df)
        stamped == _create_timestamp_index_for_noaa_df(cal, named)
    IN  _map_noaa_df_to_year(cal, Shift(stamped, timezone_gmt_offset), year)

(***************************************************************************)
(* get_tmy_epw_file(wmo_index, tmy_epw_dir) and                            *)
(* Meteorology.from_tmy3_file(path): the TMY file of the station is found  *)
(* in the directory or downloaded into it (found says whether it can be    *)
(* had), and read into the station's template.                             *)
(***************************************************************************)
get_tmy_epw_file(fs, wmo_index, tmy_epw_dir, found) ==
    LET path == PathJoin(tmy_epw_dir, <<ToString(wmo_index), ".epw">>)
    IN  IF PathExists(fs, path) THEN [fs |-> fs, path |-> path, raised |-> FALSE]
        ELSE IF ~found THEN [fs |-> fs, path |-> None, raised |-> TRUE]
        ELSE [fs |-> fs @@ (path :> [type |-> "tmy", wmo_index |-> wmo_index]),
              path |-> path, raised |-> FALSE]

\* The template: the station's metadata and the fields the build sets.
from_tmy3_file(fs, path) ==
    LET m == StationMetadata(fs[path].wmo_index)
    IN  [country |-> m.country, state |-> m.state, city |-> m.city,
         station_number |-> m.station_number,
         timezone_gmt_offset |-> m.timezone_gmt_offset,
         elevation |-> m.elevation,
         year |-> None, Tdb |-> None, Tdew |-> None, Patm |-> None,
         Wdir |-> None, Wspeed |-> None]

(***************************************************************************)
(* The pieces of create_amy_epw_file.                                      *)
(***************************************************************************)
\* Lines 61-62 and 75-78 with only the first of amy_files looked at.
InputErrorFirstPathOnly(fs, amy_dir, amy_files) ==
    IF amy_dir # None /\ amy_files # None
    THEN <<"It is not possible to specify both amy_dir and amy_files">>
    ELSE IF amy_files # None /\ ~PathExists(fs, amy_files[1])
    THEN <<"Path ">> \o amy_files[1] \o <<" does not exist">>
    ELSE None

\* Lines 61-62 and 75-78: the exception input resolution raises, None when
\* it raises none.
InputError(fs, amy_dir, amy_files) ==
    IF amy_dir # None /\ amy_files # None
    THEN <<"It is not possible to specify both amy_dir and amy_files">>
    ELSE IF amy_files # None
            /\ \E i \in 1..Len(amy_files) : ~PathExists(fs, amy_files[i])
    THEN LET i == MinOf({j \in 1..Len(amy_files) : ~PathExists(fs, amy_files[j])})
         IN  <<"Path ">> \o amy_files[i] \o <<" does not exist">>
    ELSE None

\* Lines 93-94.
OutputFileName(tmy, year) ==
    Replace(tmy.country \o <<"_">> \o tmy.state \o <<"_">> \o tmy.city
                \o <<".">> \o tmy.station_number
                \o <<"_AMY_", ToString(year), ".epw">>,
            " ", "-")

\* The existence check made on the file name alone.
OutputExistsByName(fs, amy_epw_dir, amy_epw_file_name) ==
    PathExists(fs, amy_epw_file_name)

\* Lines 95-97: os.path.exists(os.path.join(amy_epw_dir, amy_epw_file_name))
OutputExists(fs, amy_epw_dir, amy_epw_file_name) ==
    PathExists(fs, PathJoin(amy_epw_dir, amy_epw_file_name))

\* i / 10 of a value of the table.
TenthOf(v) == IF IsNaN(v) THEN NaN ELSE RatScale(v, 1, 10)

\* Lines 129-134: the column Station_Pressure, row by row.
WithStationPressure(amy_df, elevation) ==
    [index |-> amy_df.index,
     columns |-> Append(amy_df.columns, "Station_Pressure"),
     cols |-> [c \in ColumnsOf(amy_df) \cup {"Station_Pressure"} |->
                 IF c = "Station_Pressure"
                 THEN [r \in 1..NRows(amy_df) |->
                         _convert_sea_level_pressure_to_station_pressure(
                             amy_df.cols["Sea_Level_Pressure"][r], elevation)]
                 ELSE amy_df.cols[c]]]

\* Lines 137-142: the template's fields set from the table.
Spliced(tmy, year, amy_df) ==
    [tmy EXCEPT
        !.year = year,
        !.Tdb = [r \in 1..NRows(amy_df) |-> TenthOf(amy_df.cols["Air_Temperature"][r])],
        !.Tdew = [r \in 1..NRows(amy_df) |->
                    TenthOf(amy_df.cols["Dew_Point_Temperature"][r])],
        !.Patm = amy_df.cols["Station_Pressure"],
        !.Wdir = amy_df.cols["Wind_Direction"],
        !.Wspeed = [r \in 1..NRows(amy_df) |-> TenthOf(amy_df.cols["Wind_Speed"][r])]]

\* sep.join(lines), as pieces.
RECURSIVE Join(_, _)
Join(lines, sep) ==
    IF Len(lines) <= 1 THEN lines
    ELSE <<Head(lines), sep>> \o Join(Tail(lines), sep)

\* The message with the first violation only.
ValidationMessageFirstOnly(epw_rule_violations) ==
    <<"EPW validation failed:\n", epw_rule_violations[1]>>

\* Line 147: "EPW validation failed:\n" + "\n".join(epw_rule_violations)
ValidationMessage(epw_rule_violations) ==
    <<"EPW validation failed:\n">> \o Join(epw_rule_violations, "\n")

(***************************************************************************)
(* The build as a state machine.  build holds the world (archive: the      *)
(* shape of the NOAA archive's files; fs: the file system), the number of  *)
(* calls made, the paths the calls returned, and the activation record of  *)
(* the current call: its arguments and local variables, and three records  *)
(* kept for the properties (fs0: the file system when the call began;      *)
(* existed: whether the output file of the call existed then; log: the     *)
(* collaborators and file operations the call has invoked, in order).      *)
(***************************************************************************)
MaxCalls == 2

BuildYears == {2019, 2020}

InterpolateCeilings == {1}

ImputeCeilings == {3}

OutputDirs == {None, <<"out">>}

AmyDirs == {None, <<"amy">>}

AmyFiles ==
    {None, <<FirstYearFile, NextYearFile>>, <<FirstYearFile, AbsentFile>>,
     <<AbsentFile, NextYearFile>>}

\* What tmy.validate_against_epw_rules() can return.
ViolationLists ==
    {<<>>, <<"Tdb out of range">>, <<"Tdb out of range", "Patm is missing">>}

BuildFrame(fs, wmo_index, year, max_records_to_interpolate, max_records_to_impute, amy_epw_dir, tmy_epw_dir, amy_dir, amy_files) ==
    [wmo_index |-> wmo_index, year |-> year,
     max_records_to_interpolate |-> max_records_to_interpolate,
     max_records_to_impute |-> max_records_to_impute,
     amy_epw_dir |-> amy_epw_dir, tmy_epw_dir |-> tmy_epw_dir,
     amy_dir |-> amy_dir, amy_files |-> amy_files,
     amy_file_path |-> None, amy_next_year_file_path |-> None,
     tmy |-> None, amy_epw_file_path |-> None, amy_df |-> None,
     epw_rule_violations |-> None, raised |-> None, returned |-> None,
     fs0 |-> fs,
     existed |-> PathExists(fs,
                    PathJoin(IF amy_epw_dir = None THEN _tempdir_amy_epw
                             ELSE amy_epw_dir,
                             OutputFileName(StationMetadata(wmo_index), year))),
     aligned |-> None, log |-> <<>>]

BuildInit ==
    /\ build \in {[pc |-> "idle", archive |-> kind, fs |-> InitialFiles,
                   calls |-> 0, results |-> {}, call |-> None] :
                     kind \in FileKinds}
    /\ splitCall = Idle
    /\ mapCall = Idle
    /\ repairCall = Idle
    /\ pressureCall = Idle

\* A call of create_amy_epw_file begins, once the call before has ended.
BuildCall ==
    /\ build.pc \in {"idle", "returned", "raised"}
    /\ build.calls < MaxCalls
    /\ \E wmo_index \in Stations, year \in BuildYears,
          max_records_to_interpolate \in InterpolateCeilings,
          max_records_to_impute \in ImputeCeilings,
          amy_epw_dir \in OutputDirs, amy_dir \in AmyDirs,
          amy_files \in AmyFiles :
            build' = [build EXCEPT
                         !.pc = "resolving",
                         !.calls = @ + 1,
                         !.call = BuildFrame(build.fs, wmo_index, year,
                                             max_records_to_interpolate,
                                             max_records_to_impute,
                                             amy_epw_dir, None, amy_dir,
                                             amy_files)]
    /\ UNCHANGED <<splitCall, mapCall, repairCall, pressureCall>>

\* Lines 61-80.
BuildResolveInputs ==
    /\ build.pc = "resolving"
    /\ LET c == build.call
           error == InputError(build.fs, c.amy_dir, c.amy_files)
       IN  build' =
             IF error # None
             THEN [build EXCEPT !.pc = "raised", !.call.raised = error]
             ELSE [build EXCEPT
                      !.pc = IF c.amy_files # None THEN "template"
                             ELSE "retrieving",
                      !.call.amy_epw_dir =
                          IF c.amy_epw_dir = None THEN _tempdir_amy_epw ELSE @,
                      !.call.tmy_epw_dir =
                          IF c.tmy_epw_dir = None
                          THEN PathJoin(_files_dir, <<"tmy_epw_files">>) ELSE @,
                      !.call.amy_file_path =
                          IF c.amy_files # None THEN c.amy_files[1] ELSE @,
                      !.call.amy_next_year_file_path =
                          IF c.amy_files # None THEN c.amy_files[2] ELSE @]
    /\ UNCHANGED <<splitCall, mapCall, repairCall, pressureCall>>

\* Lines 82-87.
BuildRetrieveObservations ==
    /\ build.pc = "retrieving"
    /\ \E n1 \in NetworkOutcomes, n2 \in NetworkOutcomes :
          LET c == build.call
              amy_dir == IF c.amy_dir = None
                         THEN PathJoin(_files_dir, <<"noaa_isd_lite_files">>)
                         ELSE c.amy_dir
              first == get_noaa_isd_lite_file(build.fs, c.wmo_index, c.year,
                                              amy_dir, n1)
              second == get_noaa_isd_lite_file(first.fs, c.wmo_index,
                                               c.year + 1, amy_dir, n2)
          IN  build' =
                IF first.raised
                THEN [build EXCEPT
                         !.pc = "raised", !.fs = first.fs,
                         !.call.amy_dir = amy_dir,
                         !.call.raised = <<"URLError">>,
                         !.call.log = Append(@, "get_noaa_isd_lite_file")]
                ELSE IF second.raised
                THEN [build EXCEPT
                         !.pc = "raised", !.fs = second.fs,
                         !.call.amy_dir = amy_dir,
                         !.call.amy_file_path = first.path,
                         !.call.raised = <<"URLError">>,
                         !.call.log = @ \o <<"get_noaa_isd_lite_file",
                                             "get_noaa_isd_lite_file">>]
                ELSE [build EXCEPT
                         !.pc = "template", !.fs = second.fs,
                         !.call.amy_dir = amy_dir,
                         !.call.amy_file_path = first.path,
                         !.call.amy_next_year_file_path = second.path,
                         !.call.log = @ \o <<"get_noaa_isd_lite_file",
                                             "get_noaa_isd_lite_file">>]
    /\ UNCHANGED <<splitCall, mapCall, repairCall, pressureCall>>

\* Lines 90-91.
BuildReadTemplate ==
    /\ build.pc = "template"
    /\ \E found \in BOOLEAN :
          LET c == build.call
              got == get_tmy_epw_file(build.fs, c.wmo_index, c.tmy_epw_dir, found)
          IN  build' =
                IF got.raised
                THEN [build EXCEPT
                         !.pc = "raised",
                         !.call.raised = <<"URLError">>,
                         !.call.log = Append(@, "get_tmy_epw_file")]
                ELSE [build EXCEPT
                         !.pc = "naming", !.fs = got.fs,
                         !.call.tmy = from_tmy3_file(got.fs, got.path),
                         !.call.log = @ \o <<"get_tmy_epw_file", "from_tmy3_file">>]
    /\ UNCHANGED <<splitCall, mapCall, repairCall, pressureCall>>

\* Lines 93-99.
BuildOutputPath ==
    /\ build.pc = "naming"
    /\ LET c == build.call
           amy_epw_file_name == OutputFileName(c.tmy, c.year)
           amy_epw_file_path == PathJoin(c.amy_epw_dir, amy_epw_file_name)
       IN  build' =
             IF OutputExists(build.fs, c.amy_epw_dir, amy_epw_file_name)
             THEN [build EXCEPT
                      !.pc = "returned",
                      !.results = @ \cup {[wmo_index |-> c.wmo_index,
                                           year |-> c.year,
                                           amy_epw_dir |-> c.amy_epw_dir,
                                           path |-> amy_epw_file_path]},
                      !.call.amy_epw_file_path = amy_epw_file_path,
                      !.call.returned = amy_epw_file_path]
             ELSE [build EXCEPT
                      !.pc = "reading",
                      !.call.amy_epw_file_path = amy_epw_file_path]
    /\ UNCHANGED <<splitCall, mapCall, repairCall, pressureCall>>

\* Lines 105-116; read_csv raises when the file is not there.
BuildAlign ==
    /\ build.pc = "reading"
    /\ LET c == build.call
           amy_df == AlignedObservations(BuildCalendar, build.archive, build.fs,
                                         c.amy_file_path,
                                         c.amy_next_year_file_path,
                                         c.tmy.timezone_gmt_offset, c.year)
       IN  build' =
             IF ~PathExists(build.fs, c.amy_file_path)
             THEN [build EXCEPT
                      !.pc = "raised",
                      !.call.raised = <<"FileNotFoundError">>,
                      !.call.log = Append(@, "read_csv")]
             ELSE IF ~PathExists(build.fs, c.amy_next_year_file_path)
             THEN [build EXCEPT
                      !.pc = "raised",
                      !.call.raised = <<"FileNotFoundError">>,
                      !.call.log = @ \o <<"read_csv", "read_csv">>]
             ELSE [build EXCEPT
                      !.pc = "repairing",
                      !.call.amy_df = amy_df,
                      !.call.aligned = amy_df,
                      !.call.log = @ \o <<"read_csv", "read_csv">>]
    /\ UNCHANGED <<splitCall, mapCall, repairCall, pressureCall>>

\* Lines 118-126: step "1h", imputation_range "2w", imputation_step "1d".
BuildRepair ==
    /\ build.pc = "repairing"
    /\ LET c == build.call
           done == _handle_missing_values(
                       c.amy_df, 1, c.max_records_to_interpolate,
                       c.max_records_to_impute,
                       2 * BuildCalendar.daysPerWeek * BuildCalendar.hoursPerDay,
                       BuildCalendar.hoursPerDay, MissingMarkers)
       IN  build' =
             IF done.pc = "raised"
             THEN [build EXCEPT
                      !.pc = "raised",
                      !.call.amy_df = done.df,
                      !.call.raised = done.error,
                      !.call.log = Append(@, "_handle_missing_values")]
             ELSE [build EXCEPT
                      !.pc = "converting",
                      !.call.amy_df = done.df,
                      !.call.log = Append(@, "_handle_missing_values")]
    /\ UNCHANGED <<splitCall, mapCall, repairCall, pressureCall>>

\* Lines 129-142.
BuildConvert ==
    /\ build.pc = "converting"
    /\ LET c == build.call
           amy_df == WithStationPressure(c.amy_df, c.tmy.elevation)
       IN  build' = [build EXCEPT
                        !.pc = "validating",
                        !.call.amy_df = amy_df,
                        !.call.tmy = Spliced(c.tmy, c.year, amy_df)]
    /\ UNCHANGED <<splitCall, mapCall, repairCall, pressureCall>>

\* Lines 145-147.
BuildValidate ==
    /\ build.pc = "validating"
    /\ \E epw_rule_violations \in ViolationLists :
          build' =
            IF Len(epw_rule_violations) > 0
            THEN [build EXCEPT
                     !.pc = "raised",
                     !.call.epw_rule_violations = epw_rule_violations,
                     !.call.raised = ValidationMessage(epw_rule_violations),
                     !.call.log = Append(@, "validate_against_epw_rules")]
            ELSE [build EXCEPT
                     !.pc = "writing",
                     !.call.epw_rule_violations = epw_rule_violations,
                     !.call.log = Append(@, "validate_against_epw_rules")]
    /\ UNCHANGED <<splitCall, mapCall, repairCall, pressureCall>>

\* Lines 150-152; write_epw writes the file or raises.
BuildWrite ==
    /\ build.pc = "writing"
    /\ \E written \in BOOLEAN :
          LET c == build.call
          IN  build' =
                IF written
                THEN [build EXCEPT
                         !.pc = "returned",
                         !.fs = (c.amy_epw_file_path :> [type |-> "epw", tmy |-> c.tmy])
                                    @@ @,
                         !.results = @ \cup {[wmo_index |-> c.wmo_index,
                                              year |-> c.year,
                                              amy_epw_dir |-> c.amy_epw_dir,
                                              path |-> c.amy_epw_file_path]},
                         !.call.returned = c.amy_epw_file_path,
                         !.call.log = Append(@, "write_epw")]
                ELSE [build EXCEPT
                         !.pc = "raised",
                         !.call.raised = <<"OSError">>,
                         !.call.log = Append(@, "write_epw")]
    /\ UNCHANGED <<splitCall, mapCall, repairCall, pressureCall>>

Next ==
    \/ BuildCall
    \/ BuildResolveInputs
    \/ BuildRetrieveObservations
    \/ BuildReadTemplate
    \/ BuildOutputPath
    \/ BuildAlign
    \/ BuildRepair
    \/ BuildConvert
    \/ BuildValidate
    \/ BuildWrite

Init == BuildInit

Spec == Init /\ [][Next]_vars

(***************************************************************************)
(* Properties of the build.                                                *)
(***************************************************************************)
\* The current call has invoked the collaborator or file operation name.
Invoked(name) ==
    \E i \in 1..Len(build.call.log) : build.call.log[i] = name

InCall == build.pc # "idle"

\* The longest run of consecutive rows of a column that hold a missing
\* marker, 0 when no row does.
LongestMissingRun(df, col) ==
    MaxOf({0} \cup
          {n \in 1..NRows(df) :
              \E first \in 1..(NRows(df) - n + 1) :
                  \A r \in first..(first + n - 1) :
                      df.cols[col][r] \in MissingMarkers})

\* The columns of the aligned table of the call with a run of missing
\* values longer than max_records_to_impute.
ColumnsBeyondCeiling ==
    {col \in ColumnsOf(build.call.aligned) :
        LongestMissingRun(build.call.aligned, col)
            > build.call.max_records_to_impute}

\* C5: if after alignment a column has a run of consecutive missing values
\* longer than max_records_to_impute, the call fails with an error that
\* carries the name of such a column, the longest run observed in it and
\* the ceiling; write_epw is never invoked in the call and no output file
\* exists after it.
GapBeyondCeilingAborts ==
    (InCall /\ Invoked("_handle_missing_values") /\ ColumnsBeyondCeiling # {})
    =>  /\ build.pc = "raised"
        /\ \E col \in ColumnsBeyondCeiling :
              /\ build.call.raised[2] = col
              /\ build.call.raised[4]
                    = ToString(LongestMissingRun(build.call.aligned, col))
        /\ build.call.raised[6] = ToString(build.call.max_records_to_impute)
        /\ ~Invoked("write_epw")
        /\ ~PathExists(build.fs, build.call.amy_epw_file_path)

GapAborted ==
    /\ build.pc = "raised"
    /\ Invoked("_handle_missing_values")
    /\ build.call.raised[2] = "Wind_Speed"
    /\ LongestMissingRun(build.call.aligned, "Wind_Speed") = 4

\* Two calls that returned for the same station, year and output directory
\* returned the same path.
SameCallSamePath ==
    \A r1 \in build.results, r2 \in build.results :
        (/\ r1.wmo_index = r2.wmo_index
         /\ r1.year = r2.year
         /\ r1.amy_epw_dir = r2.amy_epw_dir)
        => r1.path = r2.path

\* The path of the output file of the current call.
ExpectedOutputPath ==
    PathJoin(IF build.call.amy_epw_dir = None THEN _tempdir_amy_epw
             ELSE build.call.amy_epw_dir,
             OutputFileName(StationMetadata(build.call.wmo_index),
                            build.call.year))

\* The current call has not read an observation file, repaired or written.
NothingBuilt ==
    /\ ~Invoked("read_csv")
    /\ ~Invoked("_handle_missing_values")
    /\ ~Invoked("write_epw")
    /\ build.fs[ExpectedOutputPath] = build.call.fs0[ExpectedOutputPath]

\* C6 as stated: two calls for the same station, year and output directory
\* return the same path, and a call made when the output file exists
\* returns that path without reading the observation files, repairing or
\* invoking write_epw.
ExistingOutputIsReturned ==
    /\ SameCallSamePath
    /\ (build.pc \in {"returned", "raised"} /\ build.call.existed)
       =>  /\ build.pc = "returned"
           /\ build.call.returned = ExpectedOutputPath
           /\ NothingBuilt

\* C6 as amended: two calls that return for the same station, year and
\* output directory return the same path; a call made when the output file
\* exists never reads the observation files, repairs or invokes write_epw,
\* and leaves the file as it was; it returns that path unless input
\* resolution, the retrieval of the observation files or the retrieval of
\* the template fails first, and then it raises.
ExistingOutputShortCircuits ==
    /\ SameCallSamePath
    /\ (InCall /\ build.call.existed)
       =>  /\ NothingBuilt
           /\ build.pc \in {"resolving", "retrieving", "template", "naming",
                            "returned", "raised"}
           /\ build.pc = "returned" => build.call.returned = ExpectedOutputPath
           /\ build.pc = "raised" => build.call.tmy = None

SecondCallSkipsTheBuild ==
    /\ build.pc = "returned"
    /\ build.calls = 2
    /\ build.call.existed
    /\ build.call.returned = ExpectedOutputPath

\* C7: when the validator returns violations the call fails with an error
\* whose message holds every one of them and write_epw is not invoked;
\* write_epw is invoked only after the validator returned an empty list.
ViolationsAbortTheWrite ==
    InCall =>
        /\ (/\ Invoked("validate_against_epw_rules")
            /\ Len(build.call.epw_rule_violations) > 0)
           =>  /\ build.pc = "raised"
               /\ \A i \in 1..Len(build.call.epw_rule_violations) :
                     \E j \in 1..Len(build.call.raised) :
                        build.call.raised[j] = build.call.epw_rule_violations[i]
               /\ ~Invoked("write_epw")
        /\ Invoked("write_epw")
           =>  /\ Invoked("validate_against_epw_rules")
               /\ build.call.epw_rule_violations = <<>>

TwoViolationsReported ==
    /\ build.pc = "raised"
    /\ Invoked("validate_against_epw_rules")
    /\ Len(build.call.epw_rule_violations) = 2

\* The arguments of the current call name both amy_dir and amy_files, or
\* name amy_files of which one did not exist when the call began.
InvalidInputs ==
    \/ build.call.amy_dir # None /\ build.call.amy_files # None
    \/ /\ build.call.amy_files # None
       /\ \E i \in 1..2 : ~PathExists(build.call.fs0, build.call.amy_files[i])

\* C8: a call that names both amy_dir and amy_files, or names amy_files of
\* which one does not exist, fails, and it fails before any retrieval
\* collaborator is called and before any file is read or written.
InvalidInputsFailFirst ==
    (InCall /\ InvalidInputs)
    =>  /\ build.pc \in {"resolving", "raised"}
        /\ build.call.log = <<>>
        /\ build.fs = build.call.fs0
        /\ build.pc = "raised"
           => build.call.raised
                \in {InputError(build.call.fs0, build.call.amy_dir,
                                build.call.amy_files)} \ {None}

AbsentSecondFileRejected ==
    /\ build.pc = "raised"
    /\ build.call.amy_dir = None
    /\ build.call.amy_files = <<FirstYearFile, AbsentFile>>
    /\ build.call.log = <<>>


(***************************************************************************)
(* The alignment of create_amy_epw_file, lines 105-116, on its own: the    *)
(* activation in build goes through the reading of the two files, the      *)
(* naming and stamping of the rows, the shift by the station's GMT offset  *)
(* and the mapping onto the year, for a station at any whole-hour offset   *)
(* of less than a day on either side of Greenwich.                         *)
(***************************************************************************)
AlignHoursPerDay == 4

AlignCalendar == [BuildCalendar EXCEPT !.hoursPerDay = AlignHoursPerDay]

\* The call has resolved the two observation files, of the year and of the
\* year after it, and read the template of a station whose
\* timezone_gmt_offset is a number of whole hours of less than a day.
AlignInit ==
    /\ build \in
          {[pc |-> "read", kind |-> kind, year |-> year,
            timezone_gmt_offset |-> offset,
            fs |-> (FirstYearFile :> [type |-> "observations", year |-> year])
                     @@ (NextYearFile
                           :> [type |-> "observations", year |-> year + 1]),
            amy_file_path |-> FirstYearFile,
            amy_next_year_file_path |-> NextYearFile,
            amy_df |-> None] :
              kind \in FileKinds, year \in BuildYears,
              offset \in (1 - AlignHoursPerDay)..(AlignHoursPerDay - 1)}
    /\ splitCall = Idle
    /\ mapCall = Idle
    /\ repairCall = Idle
    /\ pressureCall = Idle

\* Lines 105-107: the year's file, then the rows of the next year's file up
\* to one less than the hours of a day, under it.
AlignRead ==
    /\ build.pc = "read"
    /\ LET amy_df == read_csv(AlignCalendar, build.kind, build.fs,
                              build.amy_file_path, None)
           amy_next_year_df ==
               read_csv(AlignCalendar, build.kind, build.fs,
                        build.amy_next_year_file_path,
                        <<AlignCalendar.hoursPerDay - 1>>)
       IN  build' = [build EXCEPT !.pc = "stamp",
                                  !.amy_df = amy_df \o amy_next_year_df]
    /\ UNCHANGED <<splitCall, mapCall, repairCall, pressureCall>>

\* Lines 109-110.
AlignStamp ==
    /\ build.pc = "stamp"
    /\ build' = [build EXCEPT
                    !.pc = "shift",
                    !.amy_df = _create_timestamp_index_for_noaa_df(
                                   AlignCalendar,
                                   _set_noaa_df_columns(build.amy_df))]
    /\ UNCHANGED <<splitCall, mapCall, repairCall, pressureCall>>

\* Line 113.
AlignShift ==
    /\ build.pc = "shift"
    /\ build' = [build EXCEPT
                    !.pc = "map",
                    !.amy_df = Shift(build.amy_df, build.timezone_gmt_offset)]
    /\ UNCHANGED <<splitCall, mapCall, repairCall, pressureCall>>

\* Line 116.
AlignMap ==
    /\ build.pc = "map"
    /\ build' = [build EXCEPT
                    !.pc = "aligned",
                    !.amy_df = _map_noaa_df_to_year(AlignCalendar, build.amy_df,
                                                    build.year)]
    /\ UNCHANGED <<splitCall, mapCall, repairCall, pressureCall>>

AlignNext == AlignRead \/ AlignStamp \/ AlignShift \/ AlignMap

SpecAlign == AlignInit /\ [][AlignNext]_vars

\* The rows of the table that hold no value in any column.
AllAbsentRows(df) ==
    {r \in 1..NRows(df) : \A col \in ColumnsOf(df) : IsNaN(df.cols[col][r])}

\* C13: when the files hold a line for every hour of the year and of the
\* next year, then for every whole-hour GMT offset, positive or negative,
\* the table mapped onto the year has no row without values: every hour of
\* the year's grid found an observation.
EveryGridHourHasAnObservation ==
    (build.pc = "aligned" /\ build.kind # "rows_absent") =>
        AllAbsentRows(build.amy_df) = {}

====
